---- MODULE Spec2Model ----
(***************************************************************************)
(* pgfast: SchemaManager (src/src/pgfast/schema.py).                       *)
(*                                                                         *)
(* The model has three parts.                                              *)
(*   - the migrations directory: which up/down files exist, the            *)
(*     "depends_on" headers written in them and whether a down artifact    *)
(*     really undoes its up artifact;                                      *)
(*   - the database: the _pgfast_migrations table and the effects of the   *)
(*     migration artifacts that are committed;                             *)
(*   - the callers of migrate_up / migrate_down, one record per caller,    *)
(*     stepping through the handler from await point to await point, and   *)
(*     the up, down and status commands of src/src/pgfast/cli.py.          *)
(* Every execution of SQL may succeed, raise asyncpg.PostgresError, raise  *)
(* another exception (asyncio.TimeoutError, asyncpg.InterfaceError,        *)
(* OSError) or be cancelled.                                               *)
(***************************************************************************)
EXTENDS Integers, Sequences, FiniteSets, TLC

\* ---------------------------------------------------------------- bounds
MaxVersion == 2
MaxEdges == 2
MaxFileOps == 1
MaxTests == 2
MaxStarts == 3
MaxRequests == 3

Versions == 0..MaxVersion
Targets == 0..MaxVersion
StepArgs == 0..(MaxVersion + 1)

VARIABLES
    deps,        \* version -> versions named in its "depends_on" header
    upFile,      \* versions whose *_up.sql file exists
    downFile,    \* versions whose *_down.sql file exists
    inverse,     \* versions whose down artifact undoes its up artifact
    twin,        \* versions carried by a second pair of files, of another name
    edited,      \* applied versions whose up file was rewritten afterwards
    fileOps,     \* number of changes made to the directory so far
    tableExists, \* _pgfast_migrations has been created
    rows,        \* version -> number of committed tracking rows
    effects,     \* version -> committed executions of its up artifact not
                 \*            followed by a committed down artifact
    objects,     \* versions whose created objects exist in the database
    call,        \* caller -> record of the call it is executing
    dbases,      \* name -> the database of that name on the server
    pool,        \* name -> the pool opened to the database of that name
    registry,    \* _pool_db_names: the pools whose database name is recorded
    adminOpen,   \* process -> admin connections it has opened and not closed
    configDirs,  \* versions with a *.sql file in the directories that
                 \*   db_config.discover_migrations_dirs() returns
    fx,          \* process -> the fixture it runs and where it stands
    seed,        \* the call that loads fixture files into a test database
    catalog,     \* the names of the databases in pg_database
    bulk,        \* the run of the bulk cleanup command
    app          \* the FastAPI application and the pools of its lifespan

vars == <<deps, upFile, downFile, inverse, twin, edited, fileOps,
          tableExists, rows, effects, objects, call, dbases, pool, registry,
          adminOpen, configDirs, fx, seed, catalog, bulk, app>>
testVars == <<dbases, pool, registry, adminOpen, configDirs, fx, seed,
              catalog, bulk, app>>
sideVars == <<configDirs, seed, catalog, bulk, app>>
managerVars == <<dbases, pool, registry, adminOpen, fx>>
engineVars == <<tableExists, rows, effects, objects, call>>
fileVars == <<deps, upFile, downFile, inverse, twin, edited, fileOps>>
dbVars == <<rows, effects, objects>>

\* ------------------------------------------------------- python helpers
Range(s) == {s[i] : i \in DOMAIN s}

Min(S) == CHOOSE x \in S : \A y \in S : x <= y

Max(S) == CHOOSE x \in S : \A y \in S : y <= x

RECURSIVE SortedSeq(_)
\* sorted(migrations, key=lambda m: m.version)
SortedSeq(S) == IF S = {} THEN <<>>
                ELSE <<Min(S)>> \o SortedSeq(S \ {Min(S)})

\* reversed(seq)
Reversed(s) == [i \in 1..Len(s) |-> s[Len(s) + 1 - i]]

\* seq[-n:] for n >= 0: -0 is 0, so seq[-0:] is the whole list
LastSlice(s, n) == IF n = 0 \/ n >= Len(s) THEN s
                   ELSE SubSeq(s, Len(s) - n + 1, Len(s))

\* position of v in s, 0 when absent
IndexOf(s, v) == IF v \in Range(s)
                 THEN Min({i \in DOMAIN s : s[i] = v}) ELSE 0

\* ------------------------------------------------------ SchemaManager
RECURSIVE PerUpFile(_)
\* for up_file in glob("*_up.sql"): a version is listed once per up file
PerUpFile(s) ==
    IF s = <<>> THEN <<>>
    ELSE (IF Head(s) \in twin THEN <<Head(s), Head(s)>> ELSE <<Head(s)>>)
         \o PerUpFile(Tail(s))

\* _discover_migrations: one Migration per *_up.sql file, sorted by version
DiscoverMigrations == PerUpFile(SortedSeq(upFile))

\* get_applied_migrations: SELECT version ... ORDER BY version
GetAppliedMigrations == SortedSeq({v \in Versions : rows[v] > 0})

\* (mutant) SELECT MIN(version)
GetOldestVersion ==
    IF \E v \in Versions : rows[v] > 0
    THEN Min({v \in Versions : rows[v] > 0}) ELSE 0

\* get_current_version: SELECT MAX(version), 0 when there is no row
GetCurrentVersion ==
    IF \E v \in Versions : rows[v] > 0
    THEN Max({v \in Versions : rows[v] > 0}) ELSE 0

\* (mutant) the applied set is not subtracted
PendingUnfiltered == DiscoverMigrations

\* get_pending_migrations: discovered migrations not in the applied set
GetPendingMigrations ==
    LET applied_set == Range(GetAppliedMigrations)
    IN SelectSeq(DiscoverMigrations, LAMBDA v : v \notin applied_set)

\* migrate_up: pending = [m for m in pending if m.version <= target]
FilterTarget(pending, target) ==
    IF target = {} THEN pending
    ELSE SelectSeq(pending, LAMBDA v : \A t \in target : v <= t)

\* (mutant) the target itself is rolled back too
ToRollbackInclusive(applied, target, steps) ==
    IF target # {}
    THEN SelectSeq(Reversed(applied), LAMBDA v : \A t \in target : v >= t)
    ELSE Reversed(LastSlice(applied, steps))

\* (mutant) the target is ignored
ToRollbackIgnoringTarget(applied, target, steps) ==
    Reversed(LastSlice(applied, steps))

\* migrate_down: the versions to roll back, newest first
ToRollback(applied, target, steps) ==
    IF target # {}
    THEN SelectSeq(Reversed(applied), LAMBDA v : \A t \in target : v > t)
    ELSE Reversed(LastSlice(applied, steps))

\* except asyncpg.PostgresError: raise MigrationError(...) from e
Raised(exc) == IF exc = "PostgresError" THEN "MigrationError" ELSE exc

Failures == {"PostgresError", "OtherError", "Cancelled"}

\* ------------------------------------------------------------ the calls
NoPrev == [tag |-> "none", fromEmpty |-> FALSE, target |-> {},
           steps |-> 0, rest |-> <<>>]

Idle == [pc |-> "idle", op |-> "none", target |-> {}, steps |-> 0,
         queue |-> <<>>, idx |-> 1, ret |-> <<>>, known |-> {},
         kind |-> "none", cause |-> "none", start |-> {}, all |-> {},
         dirty |-> FALSE, prev |-> NoPrev, txn |-> 0, ddl |-> "none"]

Callers == DOMAIN call

AppliedSet == {v \in Versions : rows[v] > 0}

\* what the next call remembers of the call that has just ended over an
\* unchanged directory: a dry run and the list it reported, a forward apply
\* that succeeded without a target, or one that stopped at queue[idx]
Summary(c) ==
    IF c.dirty THEN NoPrev
    ELSE IF c.op \in {"dry_up", "dry_down"}
    THEN [tag |-> c.op, fromEmpty |-> FALSE, target |-> c.target,
          steps |-> c.steps, rest |-> c.ret]
    ELSE IF c.op # "up" THEN NoPrev
    ELSE IF c.kind # "ok"
    THEN [tag |-> "up_failed", fromEmpty |-> FALSE, target |-> c.target,
          steps |-> 0, rest |-> SubSeq(c.queue, c.idx, Len(c.queue))]
    ELSE IF c.target = {}
    THEN [tag |-> "up_ok", fromEmpty |-> (c.start = {}), target |-> {},
          steps |-> 0, rest |-> <<>>]
    ELSE NoPrev

\* the directory changed: every call in progress or ended has seen the old one
Touched == [p \in Callers |-> [call[p] EXCEPT !.dirty = TRUE]]

\* async with conn.transaction(): entering the block sends BEGIN
TxnAfterBegin(n) == n + 1

\* (mutant) the block is left without COMMIT or ROLLBACK
TxnLeftOpen(n) == n

\* async with conn.transaction(): leaving the block, normally or by an
\* exception, sends COMMIT or ROLLBACK
TxnAfterExit(n) == n - 1

\* return or raise; an exception leaves the transaction block on its way out
Finish(c, kind, cause) ==
    [c EXCEPT !.pc = "done", !.kind = kind, !.cause = cause,
              !.txn = IF @ > 0 THEN TxnAfterExit(@) ELSE @]


\* ------------------------------------------------------------ database
\* (mutant) the version column is no key
NoPrimaryKey(v) == FALSE

\* version BIGINT PRIMARY KEY: an INSERT of a committed version is refused
PrimaryKeyConflict(v) == rows[v] > 0

\* (mutant) the tracking row is not inserted
RowsAfterInsertLost(v) == rows

\* INSERT INTO _pgfast_migrations (version, name), once committed
RowsAfterInsert(v) == [rows EXCEPT ![v] = @ + 1]

\* conn.execute(sql_content) of the up artifact, once committed
EffectsAfterUp(v) == [effects EXCEPT ![v] = @ + 1]

\* (mutant) the tracking row is not deleted
RowsAfterDeleteLost(v) == rows

\* DELETE FROM _pgfast_migrations WHERE version = $1, once committed
RowsAfterDelete(v) == [rows EXCEPT ![v] = 0]

\* conn.execute(sql_content) of the down artifact, once committed
EffectsAfterDown(v) == [effects EXCEPT ![v] = 0]

\* the objects left by a committed down artifact
ObjectsAfterDown(v) == IF v \in inverse THEN objects \ {v} ELSE objects

\* another caller holds an uncommitted change of the tracking row of v
RowLocked(p, v) ==
    \E q \in Callers \ {p} :
        /\ call[q].pc \in {"up_commit", "down_commit"}
        /\ call[q].queue[call[q].idx] = v

\* ----------------------------------------------------------- migrate_up
\* lines 135-147: ensure the table, read the pending migrations, filter
UpStart(p, t) ==
    LET c == call[p]
        pending == GetPendingMigrations
        queue == FilterTarget(pending, t)
        new == [Idle EXCEPT !.op = "up", !.target = t, !.start = AppliedSet,
                            !.all = upFile, !.prev = Summary(c)]
    IN /\ c.pc \in {"idle", "done"}
       /\ tableExists' = TRUE
       /\ call' = [call EXCEPT ![p] =
             IF pending = <<>> \/ queue = <<>>
             THEN Finish(new, "ok", "none")
             ELSE [new EXCEPT !.pc = "up_next", !.queue = queue]]
       /\ UNCHANGED <<testVars, fileVars, dbVars>>

\* lines 149-163: the file check, a connection, BEGIN, the up artifact
UpExec(p) ==
    LET c == call[p]
        v == c.queue[c.idx]
    IN /\ c.pc = "up_next"
       /\ IF v \notin upFile
          THEN call' = [call EXCEPT ![p] =
                           Finish(c, "MigrationError", "missing_up")]
          ELSE \E o \in {"ok"} \cup Failures :
                  call' = [call EXCEPT ![p] =
                      IF o = "ok"
                      THEN [c EXCEPT !.pc = "up_insert",
                                     !.txn = TxnAfterBegin(@)]
                      ELSE Finish(c, Raised(o), "exec")]
       /\ UNCHANGED <<testVars, fileVars, tableExists, dbVars>>

\* lines 166-173: the INSERT of the tracking row, inside the transaction
UpInsert(p) ==
    LET c == call[p]
        v == c.queue[c.idx]
    IN /\ c.pc = "up_insert"
       /\ ~RowLocked(p, v)
       /\ IF PrimaryKeyConflict(v)
          THEN call' = [call EXCEPT ![p] =
                           Finish(c, Raised("PostgresError"), "collision")]
          ELSE \E o \in {"ok"} \cup Failures :
                  call' = [call EXCEPT ![p] =
                      IF o = "ok" THEN [c EXCEPT !.pc = "up_commit"]
                      ELSE Finish(c, Raised(o), "insert")]
       /\ UNCHANGED <<testVars, fileVars, tableExists, dbVars>>

\* lines 161, 175-185: COMMIT, applied.append, the next migration or return
UpCommit(p) ==
    LET c == call[p]
        v == c.queue[c.idx]
        next == [c EXCEPT !.ret = Append(@, v), !.idx = @ + 1,
                          !.pc = "up_next", !.txn = TxnAfterExit(@)]
    IN /\ c.pc = "up_commit"
       /\ rows' = RowsAfterInsert(v)
       /\ effects' = EffectsAfterUp(v)
       /\ objects' = objects \cup {v}
       /\ call' = [call EXCEPT ![p] =
             IF c.idx = Len(c.queue)
             THEN Finish(next, "ok", "none") ELSE next]
       /\ UNCHANGED <<testVars, fileVars, tableExists>>

\* migrate_up(self, target): the calls of a progress callback made by a
\* call so far. migrate_up has no callback parameter and lines 149-185 call
\* nothing but the logger.
ProgressCalls(c) == <<>>

\* --------------------------------------------------------- migrate_down
\* lines 202-223: ensure the table, read the applied versions, choose
DownStart(p, t, s) ==
    LET c == call[p]
        applied == GetAppliedMigrations
        queue == ToRollback(applied, t, s)
        new == [Idle EXCEPT !.op = "down", !.target = t, !.steps = s,
                            !.start = AppliedSet, !.all = upFile,
                            !.prev = Summary(c)]
    IN /\ c.pc \in {"idle", "done"}
       /\ tableExists' = TRUE
       /\ call' = [call EXCEPT ![p] =
             IF applied = <<>> \/ queue = <<>>
             THEN Finish(new, "ok", "none")
             ELSE [new EXCEPT !.pc = "down_next", !.queue = queue,
                              !.known = upFile]]
       /\ UNCHANGED <<testVars, fileVars, dbVars>>

\* lines 225-244: the file checks, a connection, BEGIN, the down artifact
DownExec(p) ==
    LET c == call[p]
        v == c.queue[c.idx]
    IN /\ c.pc = "down_next"
       /\ IF v \notin c.known
          THEN call' = [call EXCEPT ![p] =
                           Finish(c, "MigrationError", "missing_files")]
          ELSE IF v \notin downFile
          THEN call' = [call EXCEPT ![p] =
                           Finish(c, "MigrationError", "missing_down")]
          ELSE \E o \in {"ok"} \cup Failures :
                  call' = [call EXCEPT ![p] =
                      IF o = "ok"
                      THEN [c EXCEPT !.pc = "down_delete",
                                     !.txn = TxnAfterBegin(@)]
                      ELSE Finish(c, Raised(o), "exec")]
       /\ UNCHANGED <<testVars, fileVars, tableExists, dbVars>>

\* lines 247-249: the DELETE of the tracking row, inside the transaction
DownDelete(p) ==
    LET c == call[p]
        v == c.queue[c.idx]
    IN /\ c.pc = "down_delete"
       /\ ~RowLocked(p, v)
       /\ \E o \in {"ok"} \cup Failures :
             call' = [call EXCEPT ![p] =
                 IF o = "ok" THEN [c EXCEPT !.pc = "down_commit"]
                 ELSE Finish(c, Raised(o), "delete")]
       /\ UNCHANGED <<testVars, fileVars, tableExists, dbVars>>

\* lines 242, 251-260: COMMIT, rolled_back.append, the next one or return
DownCommit(p) ==
    LET c == call[p]
        v == c.queue[c.idx]
        next == [c EXCEPT !.ret = Append(@, v), !.idx = @ + 1,
                          !.pc = "down_next", !.txn = TxnAfterExit(@)]
    IN /\ c.pc = "down_commit"
       /\ rows' = RowsAfterDelete(v)
       /\ effects' = EffectsAfterDown(v)
       /\ objects' = ObjectsAfterDown(v)
       /\ call' = [call EXCEPT ![p] =
             IF c.idx = Len(c.queue)
             THEN Finish(next, "ok", "none") ELSE next]
       /\ UNCHANGED <<testVars, fileVars, tableExists>>

\* --------------------------------------------------- get_current_version
\* lines 85-95: ensure the table, SELECT MAX(version), return it or 0
CurrentVersion(p) ==
    LET c == call[p]
        new == [Idle EXCEPT !.op = "version", !.start = AppliedSet,
                            !.all = upFile, !.ret = <<GetCurrentVersion>>]
    IN /\ c.pc \in {"idle", "done"}
       /\ tableExists' = TRUE
       /\ call' = [call EXCEPT ![p] = Finish(new, "ok", "none")]
       /\ UNCHANGED <<testVars, fileVars, dbVars>>

\* ----------------------------------------------- _ensure_migrations_table
\* lines 74-83, the statement seen from its two ends. CREATE TABLE IF NOT
\* EXISTS looks for the table when it starts: it does nothing when the table
\* is there and creates it otherwise.
EnsureBegin(p, op, t) ==
    LET c == call[p]
    IN /\ c.pc = "idle"
       /\ call' = [call EXCEPT ![p] =
             [Idle EXCEPT !.pc = "ensure", !.op = op, !.target = t,
                          !.ddl = IF tableExists THEN "skip" ELSE "create"]]
       /\ UNCHANGED <<testVars, fileVars, tableExists, dbVars>>

\* a statement that set out to create the table and finds that another
\* session has created it meanwhile fails on the unique index of the
\* catalog; nothing around the statement catches the error (lines 91, 102,
\* 135, 204). Otherwise the caller goes on: get_current_version reads
\* MAX(version), migrate_up reads and filters the pending migrations.
EnsureEnd(p) ==
    LET c == call[p]
        queue == FilterTarget(GetPendingMigrations, c.target)
        new == [c EXCEPT !.start = AppliedSet, !.all = upFile]
    IN /\ c.pc = "ensure"
       /\ IF c.ddl = "create" /\ tableExists
          THEN /\ call' = [call EXCEPT ![p] =
                              Finish(c, "PostgresError", "ensure")]
               /\ UNCHANGED tableExists
          ELSE /\ tableExists' = TRUE
               /\ call' = [call EXCEPT ![p] =
                     IF c.op = "version"
                     THEN Finish([new EXCEPT !.ret = <<GetCurrentVersion>>],
                                 "ok", "none")
                     ELSE IF queue = <<>> THEN Finish(new, "ok", "none")
                     ELSE [new EXCEPT !.pc = "up_next", !.queue = queue]]
       /\ UNCHANGED <<testVars, fileVars, dbVars>>

\* ------------------------------------------------------ the command line
\* (mutant) the --dry-run flag is not looked at
DryRunIgnored(flag) == FALSE

\* cli.py, "if args.dry_run:" before the call of the manager
IsDryRun(flag) == flag

\* preview_migration(migration, direction): what a dry run prints of one
\* migration; it reads the file and nothing else
PreviewMigration(v, direction) == [version |-> v, direction |-> direction]

\* the versions printed by the previews of a list of migrations
Previewed(list, direction) ==
    [i \in 1..Len(list) |-> PreviewMigration(list[i], direction).version]

\* (mutant) the applied versions are not reversed
CliToRollbackOldestFirst(applied, target, steps) ==
    IF target # {}
    THEN SelectSeq(applied, LAMBDA v : \A t \in target : v > t)
    ELSE LastSlice(applied, steps)

\* cmd_schema_down: to_rollback_versions, computed by the command itself
CliToRollback(applied, target, steps) ==
    IF target # {}
    THEN SelectSeq(Reversed(applied), LAMBDA v : \A t \in target : v > t)
    ELSE Reversed(LastSlice(applied, steps))

\* cmd_schema_up: the pending migrations up to the target; with --dry-run
\* their previews and nothing else, without it the call of the manager
CmdSchemaUp(p, t, dry) ==
    LET c == call[p]
        pending == FilterTarget(GetPendingMigrations, t)
        new == [Idle EXCEPT !.op = IF dry THEN "dry_up" ELSE "up",
                            !.target = t, !.start = AppliedSet,
                            !.all = upFile, !.prev = Summary(c)]
    IN /\ c.pc \in {"idle", "done"}
       /\ tableExists' = TRUE
       /\ call' = [call EXCEPT ![p] =
             IF pending = <<>>
             THEN Finish(new, "ok", "none")
             ELSE IF IsDryRun(dry)
             THEN Finish([new EXCEPT !.ret = Previewed(pending, "up")],
                         "ok", "none")
             ELSE [new EXCEPT !.pc = "up_next",
                              !.queue = FilterTarget(GetPendingMigrations, t)]]
       /\ UNCHANGED <<testVars, fileVars, dbVars>>

\* cmd_schema_down: the versions to roll back; with --dry-run the previews
\* of those that have files and nothing else, without it the call of the
\* manager
CmdSchemaDown(p, t, s, dry) ==
    LET c == call[p]
        applied == GetAppliedMigrations
        to_rollback_versions == CliToRollback(applied, t, s)
        found == SelectSeq(to_rollback_versions, LAMBDA v : v \in upFile)
        new == [Idle EXCEPT !.op = IF dry THEN "dry_down" ELSE "down",
                            !.target = t, !.steps = s,
                            !.start = AppliedSet, !.all = upFile,
                            !.prev = Summary(c)]
    IN /\ c.pc \in {"idle", "done"}
       /\ tableExists' = TRUE
       /\ call' = [call EXCEPT ![p] =
             IF applied = <<>> \/ to_rollback_versions = <<>>
             THEN Finish(new, "ok", "none")
             ELSE IF IsDryRun(dry)
             THEN Finish([new EXCEPT !.ret = Previewed(found, "down")],
                         "ok", "none")
             ELSE [new EXCEPT !.pc = "down_next",
                              !.queue = ToRollback(applied, t, s),
                              !.known = upFile]]
       /\ UNCHANGED <<testVars, fileVars, dbVars>>

\* ------------------------------------------------ the migrations directory
\* create_migration: a new pair of files
AddMigration(v) ==
    /\ fileOps < MaxFileOps
    /\ v \notin upFile
    /\ upFile' = upFile \cup {v}
    /\ downFile' = downFile \cup {v}
    /\ fileOps' = fileOps + 1
    /\ call' = Touched
    /\ UNCHANGED <<testVars, deps, inverse, twin, edited, tableExists, dbVars>>

\* a file of the directory is removed
DeleteUpFile(v) ==
    /\ fileOps < MaxFileOps
    /\ v \in upFile
    /\ upFile' = upFile \ {v}
    /\ fileOps' = fileOps + 1
    /\ call' = Touched
    /\ UNCHANGED <<testVars, deps, downFile, inverse, twin, edited, tableExists,
                   dbVars>>

DeleteDownFile(v) ==
    /\ fileOps < MaxFileOps
    /\ v \in downFile
    /\ downFile' = downFile \ {v}
    /\ fileOps' = fileOps + 1
    /\ call' = Touched
    /\ UNCHANGED <<testVars, deps, upFile, inverse, twin, edited, tableExists,
                   dbVars>>

\* the up file of an applied migration is rewritten with another content
EditFile(v) ==
    /\ fileOps < MaxFileOps
    /\ v \in upFile
    /\ rows[v] > 0
    /\ v \notin edited
    /\ edited' = edited \cup {v}
    /\ fileOps' = fileOps + 1
    /\ call' = Touched
    /\ UNCHANGED <<testVars, deps, upFile, downFile, inverse, twin, tableExists,
                   dbVars>>

\* --------------------------------------------------- the test databases
\* (src/src/pgfast/testing.py and the fixtures of src/src/pgfast/pytest.py)
\* Process 0 is the pytest session with its template_db fixture, the others
\* are tests; every database is named after the process that creates it.
Tests == 1..MaxTests
Procs == 0..MaxTests
TemplateName == 0

Fixtures == {"isolated_db", "isolated_db_no_template", "db_pool_factory"}

NoDatabase == [exists |-> FALSE, applied |-> {}, template |-> FALSE,
               writes |-> {}]

\* CREATE DATABASE %I
FreshDatabase == [NoDatabase EXCEPT !.exists = TRUE]

\* CREATE DATABASE %I TEMPLATE %I: a copy of the template as it is now
CloneOf(t) == [dbases[t] EXCEPT !.template = FALSE]

NoPool == [state |-> "none", db |-> TemplateName]

\* (mutant) the pool is opened to the database of the template
TestDsnOfTemplate(name) == TemplateName

\* test_dsn = parsed._replace(path=f"/{db_name}"): the database the new pool
\* connects to
TestDsn(name) == name

\* connection.create_pool: an open pool to the database of the dsn
CreatePool(dsn) == [state |-> "open", db |-> dsn]

\* connection.close_pool: the pool is closed
ClosePool(pl) == [pl EXCEPT !.state = "closed"]

\* asyncpg.connect(admin_dsn)
AdminAfterConnect(n) == n + 1

\* (mutant) the admin connection is not closed
AdminLeftOpen(n) == n

\* finally: if admin_conn: await admin_conn.close()
AdminAfterClose(n) == n - 1

\* (mutant) the entry stays in the registry
RegistryKept(reg, p) == reg

\* _pool_db_names.pop(id(pool), None)
RegistryAfterPop(reg, p) == reg \ {p}

\* template_db: is there any *.sql file in the migrations directories of
\* db_config
HasMigrations == configDirs # {}

\* migrate_up on a new database, as a whole: every discovered migration is
\* applied, or the call raises at one of them with the ones before it applied
MigrateUpResults ==
    LET all == DiscoverMigrations
    IN {[kind |-> "ok", applied |-> Range(all)]}
       \cup {[kind |-> "MigrationError",
              applied |-> Range(SubSeq(all, 1, i - 1))] : i \in DOMAIN all}

\* (mutant) the exception of the forward apply is swallowed
SchemaUpAlwaysSucceeded(r) == TRUE

\* await schema_manager.schema_up() returns instead of raising
SchemaUpSucceeded(r) == r.kind = "ok"

NoFixture == [pc |-> "idle", fixture |-> "none", template |-> FALSE,
              why |-> "none", created |-> FALSE, err |-> "none",
              cause |-> "none", trace |-> <<>>, lost |-> FALSE,
              raised |-> "none"]

\* no call of load_fixtures or of fixture_loader
NoSeed == [pc |-> "idle", entry |-> "none", files |-> {}, asked |-> {},
           queue |-> <<>>, idx |-> 1, loaded |-> <<>>, failed |-> 0,
           err |-> "none"]

\* no run of the bulk cleanup command
NoBulk == [pc |-> "idle", pattern |-> <<>>, all |-> FALSE, before |-> {},
           listed |-> {}, todo |-> {}, answer |-> "none", exit |-> 0]

\* the application before its lifespan is entered
Requests == 1..MaxRequests

NoApp == [pc |-> "down", db_pool |-> 0, made |-> 0, open |-> {},
          got |-> [r \in Requests |-> 0], how |-> "none"]

InitManager ==
    /\ dbases = [d \in Procs |-> NoDatabase]
    /\ pool = [d \in Procs |-> NoPool]
    /\ registry = {}
    /\ adminOpen = [p \in Procs |-> 0]
    /\ fx = [p \in Procs |-> NoFixture]
    /\ seed = NoSeed

InitServer ==
    /\ InitManager
    /\ catalog = {}
    /\ bulk = NoBulk
    /\ app = NoApp

\* no test session: no directories are configured for one
InitTestDb ==
    /\ InitServer
    /\ configDirs = {}

\* where a fixture goes on when create_test_db has raised: template_db
\* enters its finally block, the setup of the others is over
AfterCreateFailed(f) ==
    [f EXCEPT !.pc = IF f.fixture = "template_db" THEN "x_connect" ELSE "end",
              !.err = "TestDatabaseError", !.cause = "create"]

\* where a fixture goes on when create_test_db has returned the pool
AfterCreate(f) ==
    [f EXCEPT !.pc = IF f.fixture \in {"template_db",
                                       "isolated_db_no_template"}
                     THEN "m_apply" ELSE "test"]

\* the except block of create_template_db and of
\* create_test_pool_with_schema: cleanup_test_db, then raise
Recover(f, cause) ==
    [f EXCEPT !.pc = "d_close", !.why = "recover", !.trace = <<>>,
              !.raised = "none",
              !.cause = cause,
              !.err = IF f.fixture = "template_db"
                      THEN "TestDatabaseError" ELSE "MigrationError"]

\* where a fixture goes on when cleanup_test_db has returned or raised: a
\* teardown is over, create_template_db raises into the finally block of
\* template_db, create_test_pool_with_schema raises, the test body goes on
AfterCleanup(f) ==
    [f EXCEPT !.pc = IF f.why = "recover" /\ f.fixture = "template_db"
                     THEN "x_connect"
                     ELSE IF f.why = "body" THEN "test" ELSE "end"]

\* cleanup_test_db has raised; in a teardown of db_pool_factory and in the
\* except blocks the exception is swallowed
CleanupFailed(f) ==
    [AfterCleanup(f) EXCEPT !.lost = TRUE, !.raised = "TestDatabaseError"]

\* pytest.py, template_db lines 49-62: no *.sql file, None is yielded;
\* otherwise create_template_db is called
SessionStart ==
    LET f == fx[TemplateName]
    IN /\ f.pc = "idle"
       /\ fx' = [fx EXCEPT ![TemplateName] =
             IF HasMigrations
             THEN [NoFixture EXCEPT !.pc = "c_connect",
                                    !.fixture = "template_db"]
             ELSE [NoFixture EXCEPT !.pc = "yield",
                                    !.fixture = "template_db"]]
       /\ UNCHANGED <<engineVars, fileVars, sideVars, dbases, pool, registry, adminOpen>>

\* pytest.py, the setup of isolated_db (with the template yielded by
\* template_db), of isolated_db_no_template and the first call of the
\* factory of db_pool_factory: create_test_db is called
FixtureStart(p, fixture) ==
    /\ fx[p].pc = "idle"
    /\ fx[TemplateName].pc = "yield"
    /\ fx' = [fx EXCEPT ![p] =
          [NoFixture EXCEPT !.pc = "c_connect", !.fixture = fixture,
                            !.template = /\ fixture = "isolated_db"
                                         /\ fx[TemplateName].template]]
    /\ UNCHANGED <<engineVars, fileVars, sideVars, dbases, pool, registry, adminOpen>>

\* create_test_db, line 83: the admin connection
CreateConnect(p) ==
    LET f == fx[p]
    IN /\ f.pc = "c_connect"
       /\ \E ok \in BOOLEAN :
             IF ok
             THEN /\ adminOpen' = [adminOpen EXCEPT ![p] = AdminAfterConnect(@)]
                  /\ fx' = [fx EXCEPT ![p] = [f EXCEPT !.pc = "c_create"]]
             ELSE /\ fx' = [fx EXCEPT ![p] = AfterCreateFailed(f)]
                  /\ UNCHANGED adminOpen
       /\ UNCHANGED <<engineVars, fileVars, sideVars, dbases, pool, registry>>

\* create_test_db, lines 86-99 and 119-129: CREATE DATABASE
CreateDatabase(p) ==
    LET f == fx[p]
    IN /\ f.pc = "c_create"
       /\ \E ok \in BOOLEAN :
             IF ok
             THEN /\ dbases' = [dbases EXCEPT ![p] =
                        IF f.template THEN CloneOf(TemplateName)
                        ELSE FreshDatabase]
                  /\ fx' = [fx EXCEPT ![p] =
                        [f EXCEPT !.pc = "c_pool", !.created = TRUE]]
                  /\ UNCHANGED adminOpen
             ELSE /\ adminOpen' = [adminOpen EXCEPT ![p] = AdminAfterClose(@)]
                  /\ fx' = [fx EXCEPT ![p] = AfterCreateFailed(f)]
                  /\ UNCHANGED dbases
       /\ UNCHANGED <<engineVars, fileVars, sideVars, pool, registry>>

\* create_test_db, lines 102-129: the pool to the new database, the registry
\* entry, the admin connection closed on the way out
CreateTestPool(p) ==
    LET f == fx[p]
    IN /\ f.pc = "c_pool"
       /\ adminOpen' = [adminOpen EXCEPT ![p] = AdminAfterClose(@)]
       /\ \E ok \in BOOLEAN :
             IF ok
             THEN /\ pool' = [pool EXCEPT ![p] = CreatePool(TestDsn(p))]
                  /\ registry' = registry \cup {p}
                  /\ fx' = [fx EXCEPT ![p] = AfterCreate(f)]
             ELSE /\ fx' = [fx EXCEPT ![p] = AfterCreateFailed(f)]
                  /\ UNCHANGED <<pool, registry>>
       /\ UNCHANGED <<engineVars, fileVars, sideVars, dbases>>

\* create_template_db, lines 224-225, and create_test_pool_with_schema,
\* lines 383-385: the forward apply on the new database
SchemaUpOnNew(p) ==
    LET f == fx[p]
        d == pool[p].db
    IN /\ f.pc = "m_apply"
       /\ \E r \in MigrateUpResults :
             /\ dbases' = [dbases EXCEPT ![d].applied = @ \cup r.applied]
             /\ fx' = [fx EXCEPT ![p] =
                   IF SchemaUpSucceeded(r)
                   THEN [f EXCEPT !.pc = IF f.fixture = "template_db"
                                         THEN "t_close" ELSE "test"]
                   ELSE Recover(f, "apply")]
       /\ UNCHANGED <<engineVars, fileVars, sideVars, pool, registry, adminOpen>>

\* create_template_db, line 227: close_pool
TemplateClosePool(p) ==
    LET f == fx[p]
    IN /\ f.pc = "t_close"
       /\ pool' = [pool EXCEPT ![p] = ClosePool(@)]
       /\ fx' = [fx EXCEPT ![p] = [f EXCEPT !.pc = "t_connect"]]
       /\ UNCHANGED <<engineVars, fileVars, sideVars, dbases, registry, adminOpen>>

\* create_template_db, lines 230-232: the admin connection
TemplateConnect(p) ==
    LET f == fx[p]
    IN /\ f.pc = "t_connect"
       /\ \E ok \in BOOLEAN :
             IF ok
             THEN /\ adminOpen' = [adminOpen EXCEPT ![p] = AdminAfterConnect(@)]
                  /\ fx' = [fx EXCEPT ![p] = [f EXCEPT !.pc = "t_update"]]
             ELSE /\ fx' = [fx EXCEPT ![p] = Recover(f, "connect")]
                  /\ UNCHANGED adminOpen
       /\ UNCHANGED <<engineVars, fileVars, sideVars, dbases, pool, registry>>

\* create_template_db, lines 234-247: UPDATE pg_database SET datistemplate,
\* the admin connection closed on the way out; template_db yields the name
TemplateMark(p) ==
    LET f == fx[p]
    IN /\ f.pc = "t_update"
       /\ adminOpen' = [adminOpen EXCEPT ![p] = AdminAfterClose(@)]
       /\ \E ok \in BOOLEAN :
             IF ok
             THEN /\ dbases' = [dbases EXCEPT ![p].template = TRUE]
                  /\ fx' = [fx EXCEPT ![p] =
                        [f EXCEPT !.pc = "yield", !.template = TRUE]]
             ELSE /\ fx' = [fx EXCEPT ![p] = Recover(f, "update")]
                  /\ UNCHANGED dbases
       /\ UNCHANGED <<engineVars, fileVars, sideVars, pool, registry>>

\* a statement of the test body, sent through the pool of the fixture
Write(p) ==
    LET f == fx[p]
        d == pool[p].db
    IN /\ f.pc = "test"
       /\ pool[p].state = "open"
       /\ p \notin dbases[d].writes
       /\ dbases' = [dbases EXCEPT ![d].writes = @ \cup {p}]
       /\ UNCHANGED <<engineVars, fileVars, sideVars, pool, registry, adminOpen, fx>>

\* (mutant) every pool is taken to have a registry entry
RegistryHasAny(reg, p) == TRUE

\* db_name = _pool_db_names.get(id(pool)); if not db_name: raise
RegistryHas(reg, p) == p \in reg

\* the test body calls cleanup_test_db on the pool of its fixture itself
\* (manager.cleanup_test_db(pool), db_pool_factory.cleanup(pool)) and goes on
CleanupInBody(p) ==
    LET f == fx[p]
    IN /\ f.pc = "test"
       /\ f.why = "none"
       /\ fx' = [fx EXCEPT ![p] =
             [f EXCEPT !.pc = "d_close", !.why = "body", !.trace = <<>>,
                       !.raised = "none"]]
       /\ UNCHANGED <<engineVars, fileVars, sideVars, dbases, pool, registry, adminOpen>>

\* the test body passes or fails; pytest resumes the fixture after its yield
\* in both cases, so the teardown does not see the outcome: cleanup_test_db
\* on the pool (pytest.py lines 87, 100), or on the pools that are still in
\* created_pools (pytest.py lines 125-128, 135-139), which a pool has left
\* when db_pool_factory.cleanup returned for it
TestEnds(p, outcome) ==
    LET f == fx[p]
        left == /\ f.fixture = "db_pool_factory"
                /\ f.why = "body"
                /\ f.raised = "none"
    IN /\ f.pc = "test"
       /\ fx' = [fx EXCEPT ![p] =
             [f EXCEPT !.pc = IF left THEN "end" ELSE "d_close",
                       !.why = "teardown", !.trace = <<>>,
                       !.raised = "none"]]
       /\ UNCHANGED <<engineVars, fileVars, sideVars, dbases, pool, registry, adminOpen>>

\* cleanup_test_db, lines 141-151: the registry lookup and close_pool
CleanupClose(p) ==
    LET f == fx[p]
    IN /\ f.pc = "d_close"
       /\ IF RegistryHas(registry, p)
          THEN /\ pool' = [pool EXCEPT ![p] = ClosePool(@)]
               /\ fx' = [fx EXCEPT ![p] =
                     [f EXCEPT !.pc = "d_connect",
                               !.trace = Append(@, "close_pool")]]
          ELSE /\ fx' = [fx EXCEPT ![p] = CleanupFailed(f)]
               /\ UNCHANGED pool
       /\ UNCHANGED <<engineVars, fileVars, sideVars, dbases, registry, adminOpen>>

\* cleanup_test_db, line 163: the admin connection
CleanupConnect(p) ==
    LET f == fx[p]
    IN /\ f.pc = "d_connect"
       /\ \E ok \in BOOLEAN :
             IF ok
             THEN /\ adminOpen' = [adminOpen EXCEPT ![p] = AdminAfterConnect(@)]
                  /\ fx' = [fx EXCEPT ![p] = [f EXCEPT !.pc = "d_terminate"]]
             ELSE /\ fx' = [fx EXCEPT ![p] = CleanupFailed(f)]
                  /\ UNCHANGED adminOpen
       /\ UNCHANGED <<engineVars, fileVars, sideVars, dbases, pool, registry>>

\* cleanup_test_db, lines 166-173: pg_terminate_backend
CleanupTerminate(p) ==
    LET f == fx[p]
    IN /\ f.pc = "d_terminate"
       /\ \E ok \in BOOLEAN :
             IF ok
             THEN /\ fx' = [fx EXCEPT ![p] =
                        [f EXCEPT !.pc = "d_drop",
                                  !.trace = Append(@, "terminate")]]
                  /\ UNCHANGED adminOpen
             ELSE /\ adminOpen' = [adminOpen EXCEPT ![p] = AdminAfterClose(@)]
                  /\ fx' = [fx EXCEPT ![p] = CleanupFailed(f)]
       /\ UNCHANGED <<engineVars, fileVars, sideVars, dbases, pool, registry>>

\* cleanup_test_db, lines 176-196: DROP DATABASE IF EXISTS, which the server
\* refuses for a database flagged datistemplate, the registry entry, the
\* admin connection closed on the way out
CleanupDrop(p) ==
    LET f == fx[p]
    IN /\ f.pc = "d_drop"
       /\ adminOpen' = [adminOpen EXCEPT ![p] = AdminAfterClose(@)]
       /\ \E ok \in BOOLEAN :
             IF ok /\ ~dbases[p].template
             THEN /\ dbases' = [dbases EXCEPT ![p] = NoDatabase]
                  /\ registry' = RegistryAfterPop(registry, p)
                  /\ fx' = [fx EXCEPT ![p] =
                        AfterCleanup([f EXCEPT !.trace = Append(@, "drop")])]
             ELSE /\ fx' = [fx EXCEPT ![p] = CleanupFailed(f)]
                  /\ UNCHANGED <<dbases, registry>>
       /\ UNCHANGED <<engineVars, fileVars, sideVars, pool>>

\* pytest.py, template_db after its yield, once every test is over: None was
\* yielded and the fixture returns, or the finally block runs
SessionEnds ==
    LET f == fx[TemplateName]
    IN /\ f.pc = "yield"
       /\ \A t \in Tests : fx[t].pc \in {"idle", "end"}
       /\ fx' = [fx EXCEPT ![TemplateName] =
             [f EXCEPT !.pc = IF f.template THEN "x_connect" ELSE "end"]]
       /\ UNCHANGED <<engineVars, fileVars, sideVars, dbases, pool, registry, adminOpen>>

\* destroy_template_db, line 275: the admin connection
DestroyConnect(p) ==
    LET f == fx[p]
    IN /\ f.pc = "x_connect"
       /\ \E ok \in BOOLEAN :
             IF ok
             THEN /\ adminOpen' = [adminOpen EXCEPT ![p] = AdminAfterConnect(@)]
                  /\ fx' = [fx EXCEPT ![p] = [f EXCEPT !.pc = "x_update"]]
             ELSE /\ fx' = [fx EXCEPT ![p] =
                        [f EXCEPT !.pc = "end", !.lost = TRUE]]
                  /\ UNCHANGED adminOpen
       /\ UNCHANGED <<engineVars, fileVars, sideVars, dbases, pool, registry>>

\* destroy_template_db, lines 278-295: datistemplate = FALSE and
\* pg_terminate_backend
DestroyUnmark(p) ==
    LET f == fx[p]
    IN /\ f.pc = "x_update"
       /\ \E ok \in BOOLEAN :
             IF ok
             THEN /\ dbases' = [dbases EXCEPT ![p].template = FALSE]
                  /\ fx' = [fx EXCEPT ![p] = [f EXCEPT !.pc = "x_drop"]]
                  /\ UNCHANGED adminOpen
             ELSE /\ adminOpen' = [adminOpen EXCEPT ![p] = AdminAfterClose(@)]
                  /\ fx' = [fx EXCEPT ![p] =
                        [f EXCEPT !.pc = "end", !.lost = TRUE]]
                  /\ UNCHANGED dbases
       /\ UNCHANGED <<engineVars, fileVars, sideVars, pool, registry>>

\* destroy_template_db, lines 298-310: DROP DATABASE IF EXISTS, the admin
\* connection closed on the way out
DestroyDrop(p) ==
    LET f == fx[p]
    IN /\ f.pc = "x_drop"
       /\ adminOpen' = [adminOpen EXCEPT ![p] = AdminAfterClose(@)]
       /\ \E ok \in BOOLEAN :
             IF ok
             THEN /\ dbases' = [dbases EXCEPT ![p] = NoDatabase]
                  /\ fx' = [fx EXCEPT ![p] = [f EXCEPT !.pc = "end"]]
             ELSE /\ fx' = [fx EXCEPT ![p] =
                        [f EXCEPT !.pc = "end", !.lost = TRUE]]
                  /\ UNCHANGED dbases
       /\ UNCHANGED <<engineVars, fileVars, sideVars, pool, registry>>

\* ------------------------------------------------------- fixture files
\* a fixture file <version>_<name>_fixture.sql is named by its version

\* Kahn's algorithm with the lowest version first among the ready nodes
RECURSIVE Kahn(_, _, _)
Kahn(d, rest, out) ==
    LET ready == {v \in rest : d[v] \cap rest = {}}
    IN IF rest = {} \/ ready = {} THEN out
       ELSE Kahn(d, rest \ {Min(ready)}, Append(out, Min(ready)))

\* the migrations in the topological order of their dependencies
TopologicalOrder == Kahn(deps, upFile, <<>>)

\* manager.discover_fixtures(): the fixture files that exist, in the order
\* of the migrations of their versions
DiscoverFixtures(files) ==
    SelectSeq(TopologicalOrder, LAMBDA v : v \in files)

\* the lists of distinct fixture files a caller can hand over
FixtureLists ==
    UNION {{l \in [1..n -> Versions] :
               \A i, j \in 1..n : l[i] = l[j] => i = j} :
           n \in 0..Cardinality(Versions)}

\* the fixture directory: every version has a fixture file, or one has none
FixtureDirs == {Versions} \cup {Versions \ {v} : v \in Versions}

\* (mutant) no requested name is reported as missing
NoMissingNames(names, found) == {}

\* missing = set(names) - found_names
MissingNames(names, found) == names \ found

\* (mutant) the statements of a failed fixture that ran before the failing
\* one stay in the database
LoadedPartly(loaded, f) == Append(loaded, f)

\* await conn.execute(sql) raises: the batch ran in one implicit
\* transaction, which the server has rolled back
LoadedAfterFailure(loaded, f) == loaded

\* manager.load_fixtures(pool, fixtures) called with a list of paths
LoadFixtures(paths, files) ==
    /\ seed.pc = "idle"
    /\ seed' = [seed EXCEPT !.pc = "run", !.entry = "load_fixtures",
                            !.files = files, !.asked = Range(paths),
                            !.queue = paths]
    /\ UNCHANGED <<engineVars, fileVars, managerVars, configDirs, catalog,
                   bulk, app>>

\* pytest.py, fixture_loader.load(names), lines 167-189: the discovered
\* fixtures whose name was requested, ValueError when a name matches none,
\* then manager.load_fixtures
FixtureLoaderLoad(names, files) ==
    LET all_fixture_paths == DiscoverFixtures(files)
        to_load == SelectSeq(all_fixture_paths, LAMBDA v : v \in names)
        missing == MissingNames(names, Range(to_load))
    IN /\ seed.pc = "idle"
       /\ seed' = IF missing # {}
                  THEN [seed EXCEPT !.pc = "done", !.entry = "fixture_loader",
                                    !.files = files, !.asked = names,
                                    !.err = "ValueError"]
                  ELSE [seed EXCEPT !.pc = "run", !.entry = "fixture_loader",
                                    !.files = files, !.asked = names,
                                    !.queue = to_load]
       /\ UNCHANGED <<engineVars, fileVars, managerVars, configDirs,
                      catalog, bulk, app>>

\* load_fixtures, lines 326-349: the next fixture of the list: the file
\* does not exist, or its SQL is executed as one batch and fails or not
LoadNext ==
    LET f == seed.queue[seed.idx]
        stop == [seed EXCEPT !.pc = "done", !.failed = seed.idx,
                             !.err = "TestDatabaseError"]
    IN /\ seed.pc = "run"
       /\ IF seed.idx > Len(seed.queue)
          THEN seed' = [seed EXCEPT !.pc = "done"]
          ELSE IF f \notin seed.files
          THEN seed' = stop
          ELSE \E ok \in BOOLEAN :
                  seed' = IF ok
                          THEN [seed EXCEPT !.loaded = Append(@, f),
                                            !.idx = @ + 1]
                          ELSE [stop EXCEPT
                                   !.loaded = LoadedAfterFailure(@, f)]
       /\ UNCHANGED <<engineVars, fileVars, managerVars, configDirs,
                      catalog, bulk, app>>

\* ---------------------------------------------------- pgfast test-db cleanup
\* database names and patterns are sequences of characters; "t_1" stands
\* for a name like pgfast_test_1 and "t_%" for the default pattern

\* datname LIKE $1: % matches any run of characters, _ any one character
RECURSIVE Like(_, _)
Like(name, pattern) ==
    IF pattern = <<>> THEN name = <<>>
    ELSE IF Head(pattern) = "%"
    THEN \/ Like(name, Tail(pattern))
         \/ name # <<>> /\ Like(Tail(name), pattern)
    ELSE /\ name # <<>>
         /\ Head(pattern) = "_" \/ Head(pattern) = Head(name)
         /\ Like(Tail(name), Tail(pattern))

DefaultPattern == <<"t", "_", "%">>

Patterns == {DefaultPattern, <<"%">>, <<"a", "p", "p">>}

DbNames == {<<"t", "_", "1">>, <<"t", "_", "2">>, <<"t", "x", "1">>,
            <<"a", "p", "p">>}

\* (mutant) the answer of the user is not looked at
ConfirmIgnored(answer) == TRUE

\* confirm(message): asks until the answer is y, yes, n or no
Confirm(answer) == answer = "yes"

\* cmd_test_db_cleanup, lines 594-609: the admin connection and the names
\* that match the pattern; none, or --all, or the list is shown
BulkStart(pattern, all) ==
    LET databases == {n \in catalog : Like(n, pattern)}
        new == [NoBulk EXCEPT !.pattern = pattern, !.all = all,
                              !.before = catalog]
    IN /\ bulk.pc = "idle"
       /\ \E ok \in BOOLEAN :
             bulk' = IF ~ok THEN [new EXCEPT !.pc = "done", !.exit = 1]
                     ELSE IF databases = {} THEN [new EXCEPT !.pc = "done"]
                     ELSE [new EXCEPT !.pc = IF all THEN "drop" ELSE "confirm",
                                      !.listed = databases,
                                      !.todo = databases]
       /\ UNCHANGED <<engineVars, fileVars, managerVars, configDirs, seed,
                      catalog, app>>

\* lines 611-618: the confirmation prompt
BulkConfirm(answer) ==
    /\ bulk.pc = "confirm"
    /\ bulk' = [bulk EXCEPT !.answer = answer,
                            !.pc = IF Confirm(answer) THEN "drop" ELSE "done"]
    /\ UNCHANGED <<engineVars, fileVars, managerVars, configDirs, seed,
                   catalog, app>>

\* lines 620-639: the next listed database: pg_terminate_backend and DROP
\* DATABASE IF EXISTS, or an error that ends the command
BulkDrop ==
    /\ bulk.pc = "drop"
    /\ IF bulk.todo = {}
       THEN /\ bulk' = [bulk EXCEPT !.pc = "done"]
            /\ UNCHANGED catalog
       ELSE \E n \in bulk.todo, ok \in BOOLEAN :
               IF ok
               THEN /\ catalog' = catalog \ {n}
                    /\ bulk' = [bulk EXCEPT !.todo = @ \ {n}]
               ELSE /\ bulk' = [bulk EXCEPT !.pc = "done", !.exit = 1]
                    /\ UNCHANGED catalog
    /\ UNCHANGED <<engineVars, fileVars, managerVars, configDirs, seed, app>>

\* ------------------------------------------------------------- fastapi
\* pools are numbered in the order of their creation, 0 is no pool

\* an exception raised inside the context is thrown into the generator at
\* its yield, which has no try block around it: the statements after the
\* yield are not executed
OpenAfterException(open, p) == open

\* lifespan, lines 54-57: create_pool, app.state.db_pool = pool, yield
LifespanStartup ==
    LET new == app.made + 1
    IN /\ app.pc = "down"
       /\ app.made < MaxStarts
       /\ \E ok \in BOOLEAN :
             app' = IF ok
                    THEN [app EXCEPT !.pc = "up", !.made = new,
                                     !.db_pool = new, !.open = @ \cup {new},
                                     !.got = [r \in Requests |-> 0],
                                     !.how = "none"]
                    ELSE [app EXCEPT !.how = "startup failed"]
       /\ UNCHANGED <<engineVars, fileVars, managerVars, configDirs, seed,
                      catalog, bulk>>

\* get_db_pool(request): request.app.state.db_pool
GetDbPool(r) ==
    /\ app.pc = "up"
    /\ app.got[r] = 0
    /\ app' = [app EXCEPT !.got[r] = app.db_pool]
    /\ UNCHANGED <<engineVars, fileVars, managerVars, configDirs, seed,
                   catalog, bulk>>

\* lifespan, lines 61-64: the context is left normally, close_pool on
\* app.state.db_pool
LifespanShutdown ==
    /\ app.pc = "up"
    /\ app' = [app EXCEPT !.pc = "down", !.how = "shutdown",
                          !.open = @ \ {app.db_pool}]
    /\ UNCHANGED <<engineVars, fileVars, managerVars, configDirs, seed,
                   catalog, bulk>>

\* the context is left by an exception raised inside it
LifespanException ==
    /\ app.pc = "up"
    /\ app' = [app EXCEPT !.pc = "down", !.how = "exception",
                          !.open = OpenAfterException(@, app.db_pool)]
    /\ UNCHANGED <<engineVars, fileVars, managerVars, configDirs, seed,
                   catalog, bulk>>

\* ------------------------------------------------------- specifications
NoDeps == [v \in Versions |-> {}]

EdgeCount(d) == Cardinality({e \in Versions \X Versions : e[2] \in d[e[1]]})

DepGraphs == {d \in [Versions -> SUBSET Versions] : EdgeCount(d) <= MaxEdges}

NoRows == [v \in Versions |-> 0]

InitDatabase ==
    /\ tableExists = FALSE
    /\ rows = NoRows
    /\ effects = NoRows
    /\ objects = {}

TargetArgs == {{}} \cup {{t} : t \in Targets}

\* one caller at a time
Engine ==
    \/ \E p \in Callers, t \in TargetArgs : UpStart(p, t)
    \/ \E p \in Callers : UpExec(p)
    \/ \E p \in Callers : UpInsert(p)
    \/ \E p \in Callers : UpCommit(p)
    \/ \E p \in Callers, t \in Targets : DownStart(p, {t}, 1)
    \/ \E p \in Callers, s \in StepArgs : DownStart(p, {}, s)
    \/ \E p \in Callers : DownExec(p)
    \/ \E p \in Callers : DownDelete(p)
    \/ \E p \in Callers : DownCommit(p)

\* a fresh database, a directory of complete migrations (with or without a
\* migration of version 0) that does not change, one caller
Init ==
    /\ deps = NoDeps
    /\ inverse \in SUBSET Versions
    /\ upFile \in {Versions, Versions \ {0}}
    /\ downFile = upFile
    /\ twin = {}
    /\ edited = {}
    /\ fileOps = 0
    /\ InitDatabase
    /\ InitTestDb
    /\ call = [p \in {1} |-> Idle]

Next == Engine

Spec == Init /\ [][Next]_vars

\* the same, the files carrying "depends_on" headers
InitDeps ==
    /\ deps \in DepGraphs
    /\ inverse = Versions
    /\ upFile \in {Versions, Versions \ {0}}
    /\ downFile = upFile
    /\ twin = {}
    /\ edited = {}
    /\ fileOps = 0
    /\ InitDatabase
    /\ InitTestDb
    /\ call = [p \in {1} |-> Idle]

SpecDeps == InitDeps /\ [][Next]_vars

\* a fresh database, one caller, a directory (empty, or with every
\* migration) that changes meanwhile
InitFiles ==
    /\ deps = NoDeps
    /\ inverse = Versions
    /\ upFile \in {{}, Versions}
    /\ downFile = upFile
    /\ twin = {}
    /\ edited = {}
    /\ fileOps = 0
    /\ InitDatabase
    /\ InitTestDb
    /\ call = [p \in {1} |-> Idle]

NextFiles ==
    \/ Engine
    \/ \E v \in Versions : AddMigration(v)
    \/ \E v \in Versions : DeleteUpFile(v)
    \/ \E v \in Versions : DeleteDownFile(v)

SpecFiles == InitFiles /\ [][NextFiles]_vars

\* the manager as the command line drives it: a fresh database, a directory
\* of complete migrations that does not change, one user running the status
\* query and the up and down commands with and without --dry-run
InitCli ==
    /\ deps = NoDeps
    /\ inverse = Versions
    /\ upFile \in {Versions, Versions \ {0}}
    /\ downFile = upFile
    /\ twin = {}
    /\ edited = {}
    /\ fileOps = 0
    /\ InitDatabase
    /\ InitTestDb
    /\ call = [p \in {1} |-> Idle]

NextCli ==
    \/ \E p \in Callers : CurrentVersion(p)
    \/ \E p \in Callers, t \in TargetArgs, dry \in BOOLEAN :
          CmdSchemaUp(p, t, dry)
    \/ \E p \in Callers, t \in Targets, dry \in BOOLEAN :
          CmdSchemaDown(p, {t}, 1, dry)
    \/ \E p \in Callers, s \in StepArgs, dry \in BOOLEAN :
          CmdSchemaDown(p, {}, s, dry)
    \/ \E p \in Callers : UpExec(p)
    \/ \E p \in Callers : UpInsert(p)
    \/ \E p \in Callers : UpCommit(p)
    \/ \E p \in Callers : DownExec(p)
    \/ \E p \in Callers : DownDelete(p)
    \/ \E p \in Callers : DownCommit(p)

SpecCli == InitCli /\ [][NextCli]_vars

\* a fresh database, one caller of migrate_up, a directory of complete
\* migrations in which the up files of applied migrations are edited
InitEdit ==
    /\ deps = NoDeps
    /\ inverse = Versions
    /\ upFile \in {Versions, Versions \ {0}}
    /\ downFile = upFile
    /\ twin = {}
    /\ edited = {}
    /\ fileOps = 0
    /\ InitDatabase
    /\ InitTestDb
    /\ call = [p \in {1} |-> Idle]

NextEdit ==
    \/ \E p \in Callers, t \in TargetArgs : UpStart(p, t)
    \/ \E p \in Callers : UpExec(p)
    \/ \E p \in Callers : UpInsert(p)
    \/ \E p \in Callers : UpCommit(p)
    \/ \E v \in Versions : EditFile(v)

SpecEdit == InitEdit /\ [][NextEdit]_vars

\* a fresh database, one caller, an unchanging directory in which some
\* versions are carried by two pairs of files with different names
InitTwin ==
    /\ deps = NoDeps
    /\ inverse = Versions
    /\ upFile = Versions
    /\ downFile = Versions
    /\ twin \in SUBSET Versions \ {{}}
    /\ edited = {}
    /\ fileOps = 0
    /\ InitDatabase
    /\ InitTestDb
    /\ call = [p \in {1} |-> Idle]

SpecTwin == InitTwin /\ [][Next]_vars

\* a pytest session: the template_db fixture, then tests that request
\* isolated_db, isolated_db_no_template or db_pool_factory and run in
\* parallel. create_template_db and create_test_pool_with_schema are called
\* without a directory and read "db/migrations" (upFile, downFile), while
\* template_db looks into the directories of db_config (configDirs): there
\* are no migrations at all, or "db/migrations" is the one directory of
\* db_config, or db_config has a second directory with the later versions
InitTest ==
    /\ deps = NoDeps
    /\ inverse = Versions
    /\ \E layout \in {<<{}, {}>>, <<Versions, Versions>>, <<{0}, Versions>>} :
          /\ upFile = layout[1]
          /\ configDirs = layout[2]
    /\ downFile = upFile
    /\ twin = {}
    /\ edited = {}
    /\ fileOps = 0
    /\ InitDatabase
    /\ InitServer
    /\ call = [p \in {1} |-> Idle]

NextTest ==
    \/ SessionStart
    \/ \E p \in Tests, fixture \in Fixtures : FixtureStart(p, fixture)
    \/ \E p \in Procs : CreateConnect(p)
    \/ \E p \in Procs : CreateDatabase(p)
    \/ \E p \in Procs : CreateTestPool(p)
    \/ \E p \in Procs : SchemaUpOnNew(p)
    \/ \E p \in Procs : TemplateClosePool(p)
    \/ \E p \in Procs : TemplateConnect(p)
    \/ \E p \in Procs : TemplateMark(p)
    \/ \E p \in Tests : Write(p)
    \/ \E p \in Tests, outcome \in {"passed", "failed"} : TestEnds(p, outcome)
    \/ \E p \in Procs : CleanupClose(p)
    \/ \E p \in Procs : CleanupConnect(p)
    \/ \E p \in Procs : CleanupTerminate(p)
    \/ \E p \in Procs : CleanupDrop(p)
    \/ SessionEnds
    \/ \E p \in Procs : DestroyConnect(p)
    \/ \E p \in Procs : DestroyUnmark(p)
    \/ \E p \in Procs : DestroyDrop(p)

SpecTest == InitTest /\ [][NextTest]_vars

\* a pytest session over a project without migrations, so that template_db
\* yields None, whose tests request isolated_db or db_pool_factory and may
\* call cleanup_test_db on the pool of their fixture themselves before the
\* teardown does
InitBody ==
    /\ deps = NoDeps
    /\ inverse = Versions
    /\ upFile = {}
    /\ configDirs = {}
    /\ downFile = upFile
    /\ twin = {}
    /\ edited = {}
    /\ fileOps = 0
    /\ InitDatabase
    /\ InitServer
    /\ call = [p \in {1} |-> Idle]

NextBody ==
    \/ SessionStart
    \/ \E p \in Tests, fixture \in {"isolated_db", "db_pool_factory"} :
          FixtureStart(p, fixture)
    \/ \E p \in Tests : CreateConnect(p)
    \/ \E p \in Tests : CreateDatabase(p)
    \/ \E p \in Tests : CreateTestPool(p)
    \/ \E p \in Tests : CleanupInBody(p)
    \/ \E p \in Tests, outcome \in {"passed", "failed"} : TestEnds(p, outcome)
    \/ \E p \in Tests : CleanupClose(p)
    \/ \E p \in Tests : CleanupConnect(p)
    \/ \E p \in Tests : CleanupTerminate(p)
    \/ \E p \in Tests : CleanupDrop(p)
    \/ SessionEnds

SpecBody == InitBody /\ [][NextBody]_vars

\* a test database with every migration applied, the migrations carrying
\* resolved, acyclic dependencies, and one call that loads fixtures
InitSeed ==
    /\ deps \in {d \in DepGraphs :
                     Len(Kahn(d, Versions, <<>>)) = Cardinality(Versions)}
    /\ inverse = Versions
    /\ upFile = Versions
    /\ downFile = Versions
    /\ twin = {}
    /\ edited = {}
    /\ fileOps = 0
    /\ tableExists = TRUE
    /\ rows = [v \in Versions |-> 1]
    /\ effects = [v \in Versions |-> 1]
    /\ objects = Versions
    /\ InitTestDb
    /\ call = [p \in {1} |-> Idle]

NextSeed ==
    \/ \E paths \in FixtureLists, files \in FixtureDirs :
          LoadFixtures(paths, files)
    \/ \E names \in SUBSET Versions, files \in FixtureDirs :
          FixtureLoaderLoad(names, files)
    \/ LoadNext

SpecSeed == InitSeed /\ [][NextSeed]_vars

\* a server with some databases and one run of pgfast test-db cleanup
InitBulk ==
    /\ deps = NoDeps
    /\ inverse = Versions
    /\ upFile = Versions
    /\ downFile = Versions
    /\ twin = {}
    /\ edited = {}
    /\ fileOps = 0
    /\ InitDatabase
    /\ InitManager
    /\ configDirs = {}
    /\ catalog \in SUBSET DbNames
    /\ bulk = NoBulk
    /\ app = NoApp
    /\ call = [p \in {1} |-> Idle]

NextBulk ==
    \/ \E pattern \in Patterns, all \in BOOLEAN : BulkStart(pattern, all)
    \/ \E answer \in {"yes", "no"} : BulkConfirm(answer)
    \/ BulkDrop

SpecBulk == InitBulk /\ [][NextBulk]_vars

\* a FastAPI application with the lifespan of create_lifespan, started and
\* stopped several times, and requests that ask for the pool
InitApp ==
    /\ deps = NoDeps
    /\ inverse = Versions
    /\ upFile = Versions
    /\ downFile = Versions
    /\ twin = {}
    /\ edited = {}
    /\ fileOps = 0
    /\ InitDatabase
    /\ InitTestDb
    /\ call = [p \in {1} |-> Idle]

NextApp ==
    \/ LifespanStartup
    \/ \E r \in Requests : GetDbPool(r)
    \/ LifespanShutdown
    \/ LifespanException

SpecApp == InitApp /\ [][NextApp]_vars

\* a fresh database, an unchanging directory, two callers of migrate_up
\* running concurrently against it
InitConc ==
    /\ deps = NoDeps
    /\ inverse = Versions
    /\ upFile = Versions
    /\ downFile = Versions
    /\ twin = {}
    /\ edited = {}
    /\ fileOps = 0
    /\ InitDatabase
    /\ InitTestDb
    /\ call = [p \in {1, 2} |-> Idle]

\* two tasks sharing one SchemaManager, each making one call of
\* get_current_version or migrate_up on a fresh database
NextEnsure ==
    \/ \E p \in Callers : EnsureBegin(p, "version", {})
    \/ \E p \in Callers, t \in TargetArgs : EnsureBegin(p, "up", t)
    \/ \E p \in Callers : EnsureEnd(p)
    \/ \E p \in Callers : UpExec(p)
    \/ \E p \in Callers : UpInsert(p)
    \/ \E p \in Callers : UpCommit(p)

SpecEnsure == InitConc /\ [][NextEnsure]_vars

\* each of the two callers makes one call
FirstUp(p, t) == call[p].pc = "idle" /\ UpStart(p, t)

NextConc ==
    \/ \E p \in Callers, t \in TargetArgs : FirstUp(p, t)
    \/ \E p \in Callers : UpExec(p)
    \/ \E p \in Callers : UpInsert(p)
    \/ \E p \in Callers : UpCommit(p)

SpecConc == InitConc /\ [][NextConc]_vars

\* a database with every migration applied, an unchanging directory, two
\* callers of migrate_down running concurrently against it
AllApplied == [v \in Versions |-> 1]

InitConcDown ==
    /\ deps = NoDeps
    /\ inverse = Versions
    /\ upFile = Versions
    /\ downFile = Versions
    /\ twin = {}
    /\ edited = {}
    /\ fileOps = 0
    /\ tableExists = TRUE
    /\ rows = AllApplied
    /\ effects = AllApplied
    /\ objects = Versions
    /\ InitTestDb
    /\ call = [p \in {1, 2} |-> Idle]

\* each of the two callers makes one call
FirstDown(p, t, s) == call[p].pc = "idle" /\ DownStart(p, t, s)

NextConcDown ==
    \/ \E p \in Callers, t \in Targets : FirstDown(p, {t}, 1)
    \/ \E p \in Callers, s \in StepArgs : FirstDown(p, {}, s)
    \/ \E p \in Callers : DownExec(p)
    \/ \E p \in Callers : DownDelete(p)
    \/ \E p \in Callers : DownCommit(p)

SpecConcDown == InitConcDown /\ [][NextConcDown]_vars

\* ================================================================ claims
Ended(c, op) == c.op = op /\ c.pc = "done"

Succeeded(c, op) == Ended(c, op) /\ c.kind = "ok"

RECURSIVE Closure(_, _, _)
Closure(d, S, n) ==
    IF n = 0 THEN S
    ELSE Closure(d, S \cup UNION {d[v] : v \in S \cap Versions}, n - 1)

\* every declared dependency is a discovered migration
Resolved(d, all) == \A v \in all : d[v] \subseteq all

\* no migration depends, directly or not, on itself
Acyclic(d, all) ==
    \A v \in all : v \notin Closure(d, d[v], Cardinality(Versions))

\* the migration a stopped call stopped at
Current(c) == c.queue[c.idx]

\* C1: when the execution of a pending migration's up artifact, or the insert
\* of its tracking row, fails, migrate_up raises MigrationError, neither the
\* migration's effects nor its row are persisted and no later pending
\* migration is attempted.
C1_FailedApplyRaisesMigrationError ==
    \A p \in Callers :
        LET c == call[p]
        IN (Ended(c, "up") /\ c.cause \in {"exec", "insert", "collision"}
                /\ c.kind # "Cancelled")
           => /\ c.kind = "MigrationError"
              /\ rows[Current(c)] = 0
              /\ effects[Current(c)] = 0
              /\ c.ret = SubSeq(c.queue, 1, c.idx - 1)
              /\ \A i \in (c.idx + 1)..Len(c.queue) : rows[c.queue[i]] = 0

\* C2: a forward apply from an empty applied set, over a directory whose
\* declared dependencies resolve and are acyclic, applies a permutation of
\* the discovered set in which every migration comes after each of its
\* declared dependencies.
C2_ApplyOrderRespectsDependencies ==
    \A p \in Callers :
        LET c == call[p]
        IN (Succeeded(c, "up") /\ c.target = {} /\ c.start = {}
                /\ ~c.dirty /\ Resolved(deps, c.all) /\ Acyclic(deps, c.all))
           => /\ Range(c.ret) = c.all
              /\ Len(c.ret) = Cardinality(c.all)
              /\ \A i \in DOMAIN c.ret :
                    \A d \in deps[c.ret[i]] :
                        IndexOf(c.ret, d) \in 1..(i - 1)

\* C3: in every committed database state a version has a tracking row iff the
\* effects of its up artifact are committed and not undone by its down
\* artifact.
C3_RowIffEffects ==
    \A v \in Versions : rows[v] = effects[v] /\ rows[v] <= 1

C3_Witness ==
    \E p \in Callers :
        LET c == call[p]
        IN /\ Ended(c, "down") /\ c.kind # "ok"
           /\ Len(c.ret) >= 1
           /\ AppliedSet # {}

\* C4: when a forward apply stops at p_k, p_1..p_(k-1) stay applied and
\* tracked and p_k..p_n stay unapplied; the next forward apply with the same
\* target over the same directory, when it succeeds, applies exactly
\* p_k..p_n.
C4_PartialProgressAndResume ==
    \A p \in Callers :
        LET c == call[p]
        IN /\ (Ended(c, "up") /\ c.kind # "ok")
              => /\ c.ret = SubSeq(c.queue, 1, c.idx - 1)
                 /\ \A i \in DOMAIN c.queue :
                       /\ rows[c.queue[i]] = (IF i < c.idx THEN 1 ELSE 0)
                       /\ effects[c.queue[i]] = (IF i < c.idx THEN 1 ELSE 0)
           /\ (Succeeded(c, "up") /\ c.prev.tag = "up_failed"
                    /\ c.prev.target = c.target)
              => c.ret = c.prev.rest

C4_Witness ==
    \E p \in Callers :
        LET c == call[p]
        IN /\ Succeeded(c, "up") /\ c.prev.tag = "up_failed"
           /\ c.prev.target = c.target
           /\ c.start # {}
           /\ Len(c.ret) >= 2

\* C5: with two forward applies running concurrently, every version has at
\* most one tracking row and at most one committed execution of its up
\* artifact, at most one caller reports it as applied, and the caller whose
\* insert collides gets MigrationError.
C5_ConcurrentApplyOnce ==
    /\ \A v \in Versions :
          /\ rows[v] <= 1
          /\ effects[v] <= 1
          /\ Cardinality({p \in Callers : v \in Range(call[p].ret)}) <= rows[v]
    /\ \A p \in Callers :
          call[p].cause = "collision" => call[p].kind = "MigrationError"

C5_Witness ==
    \E p \in Callers, q \in Callers :
        /\ p # q
        /\ call[p].pc = "done" /\ call[p].cause = "collision"
        /\ Current(call[p]) \in Range(call[q].ret)

\* C6: a forward apply that follows a successful up() over an unchanged
\* directory returns the empty list and leaves the tracking table and the
\* schema as they were.
C6_SecondUpIsNoOp ==
    \A p \in Callers :
        LET c == call[p]
        IN (Ended(c, "up") /\ c.prev.tag = "up_ok")
           => /\ c.kind = "ok"
              /\ c.ret = <<>>
              /\ AppliedSet = c.start
              /\ \A v \in Versions :
                    effects[v] = (IF v \in c.start THEN 1 ELSE 0)

C6_Witness ==
    \E p \in Callers :
        LET c == call[p]
        IN /\ Ended(c, "up") /\ c.prev.tag = "up_ok"
           /\ c.target = {}
           /\ Cardinality(c.start) >= 2

\* C7 as stated: up() from an empty applied set followed by down(target=0)
\* ends with an empty applied set, current version 0 and, when every down
\* artifact is the inverse of its up artifact, no object of the migrations.
C7_UpThenDownToZero ==
    \A p \in Callers :
        LET c == call[p]
        IN (Succeeded(c, "down") /\ c.target = {0}
                /\ c.prev.tag = "up_ok" /\ c.prev.fromEmpty)
           => /\ AppliedSet = {}
              /\ GetCurrentVersion = 0
              /\ (c.all \subseteq inverse => objects = {})

\* C7 amended: the same, for a directory in which every migration has a
\* version greater than 0.
C7_UpThenDownToZeroPositive ==
    \A p \in Callers :
        LET c == call[p]
        IN (Succeeded(c, "down") /\ c.target = {0}
                /\ c.prev.tag = "up_ok" /\ c.prev.fromEmpty
                /\ \A v \in c.all : v > 0)
           => /\ AppliedSet = {}
              /\ GetCurrentVersion = 0
              /\ (c.all \subseteq inverse => objects = {})

C7_Witness ==
    \E p \in Callers :
        LET c == call[p]
        IN /\ Succeeded(c, "down") /\ c.target = {0}
           /\ c.prev.tag = "up_ok" /\ c.prev.fromEmpty
           /\ \A v \in c.all : v > 0
           /\ c.all \subseteq inverse
           /\ Len(c.ret) >= 2

\* C8: in a rollback call a migration is rolled back only after every
\* migration of the rollback set that declares it as a dependency.
C8_DependentsRolledBackFirst ==
    \A p \in Callers :
        LET c == call[p]
        IN c.op = "down"
           => \A i \in DOMAIN c.ret :
                 \A w \in Range(c.queue) \ {c.ret[i]} :
                     c.ret[i] \in deps[w] => IndexOf(c.ret, w) \in 1..(i - 1)

\* C9: a successful down(target=t) rolls back, and returns, exactly the
\* applied versions greater than t; the versions up to t keep their rows and
\* the current version is then the largest of them, 0 if there is none.
C9_DownToTarget ==
    \A p \in Callers :
        LET c == call[p]
        IN \A t \in c.target :
              Succeeded(c, "down")
              => LET above == {v \in c.start : v > t}
                     kept == {v \in c.start : v <= t}
                 IN /\ Range(c.ret) = above
                    /\ Len(c.ret) = Cardinality(above)
                    /\ AppliedSet = kept
                    /\ GetCurrentVersion = (IF kept = {} THEN 0 ELSE Max(kept))

C9_Witness ==
    \E p \in Callers :
        LET c == call[p]
        IN /\ Succeeded(c, "down") /\ c.target # {}
           /\ Len(c.ret) >= 1
           /\ AppliedSet # {}

\* C10: a successful down(steps) without a target rolls back exactly
\* min(steps, number of applied migrations) migrations, the last ones; with
\* steps = 0 it rolls back nothing.
C10_DownBySteps ==
    \A p \in Callers :
        LET c == call[p]
            n == IF c.steps < Cardinality(c.start) THEN c.steps
                 ELSE Cardinality(c.start)
        IN (Succeeded(c, "down") /\ c.target = {})
           => /\ Len(c.ret) = n
              /\ Cardinality(Range(c.ret)) = n
              /\ \A v \in Range(c.ret) : \A w \in c.start \ Range(c.ret) : w < v
              /\ AppliedSet = c.start \ Range(c.ret)

\* C11: when the rollback of r_k fails (its down artifact or the delete of
\* its row raises, the directory holds no file of that version, or its down
\* file is missing), migrate_down raises MigrationError, r_k
\* keeps its row and its effects, the migrations before it in the rollback
\* order stay rolled back and the ones after it are not attempted.
C11_FailedRollbackKeepsCurrent ==
    \A p \in Callers :
        LET c == call[p]
        IN (Ended(c, "down") /\ c.kind \notin {"ok", "Cancelled"})
           => /\ c.kind = "MigrationError"
              /\ rows[Current(c)] = 1
              /\ effects[Current(c)] = 1
              /\ c.ret = SubSeq(c.queue, 1, c.idx - 1)
              /\ \A i \in 1..(c.idx - 1) :
                    rows[c.queue[i]] = 0 /\ effects[c.queue[i]] = 0
              /\ \A i \in (c.idx + 1)..Len(c.queue) :
                    rows[c.queue[i]] = 1 /\ effects[c.queue[i]] = 1

\* C12: a successful up(target=t) applies every pending migration with
\* version <= t, every not yet applied migration that one of those depends
\* on, directly or transitively, and no other migration.
C12_TargetPullsInDependencies ==
    \A p \in Callers :
        LET c == call[p]
        IN \A t \in c.target :
              (Succeeded(c, "up") /\ Resolved(deps, c.all)
                    /\ Acyclic(deps, c.all))
              => LET inTarget == {v \in c.all \ c.start : v <= t}
                     needed == Closure(deps, inTarget, Cardinality(Versions))
                 IN /\ Range(c.ret) = needed \ c.start
                    /\ Len(c.ret) = Cardinality(needed \ c.start)

\* C13: after any sequence of up and down calls the current version reported
\* by get_current_version is the largest version of the tracking table, and 0
\* when the table is empty.
C13_CurrentVersionIsMax ==
    \A p \in Callers :
        LET c == call[p]
        IN Ended(c, "version")
           => /\ Len(c.ret) = 1
              /\ AppliedSet = {} => c.ret[1] = 0
              /\ AppliedSet # {} =>
                    /\ c.ret[1] \in AppliedSet
                    /\ \A v \in AppliedSet : v <= c.ret[1]

C13_Witness ==
    \E p \in Callers :
        LET c == call[p]
        IN /\ Ended(c, "version")
           /\ Cardinality(AppliedSet) >= 2
           /\ AppliedSet # Versions

\* C14: when a discovered migration declares a dependency on a version that
\* is not discovered, up() raises DependencyError before it executes any
\* artifact or adds any tracking row, wherever the offending migration stands.
C14_UnknownDependencyRejected ==
    \A p \in Callers :
        LET c == call[p]
        IN (Ended(c, "up") /\ ~Resolved(deps, c.all))
           => /\ c.kind = "DependencyError"
              /\ c.ret = <<>>
              /\ AppliedSet = c.start

\* C15: when the declared dependencies of the discovered migrations contain a
\* cycle, a migration that declares itself included, up() raises
\* DependencyError, executes no artifact and adds no tracking row.
C15_CycleRejected ==
    \A p \in Callers :
        LET c == call[p]
        IN (Ended(c, "up") /\ ~Acyclic(deps, c.all))
           => /\ c.kind = "DependencyError"
              /\ c.ret = <<>>
              /\ AppliedSet = c.start

\* C16: when the content of the file of an applied migration has changed
\* since it was applied, up() without force raises ChecksumError and applies
\* none of the pending migrations.
C16_EditedFileRejected ==
    \A p \in Callers :
        LET c == call[p]
        IN (Ended(c, "up") /\ ~c.dirty /\ edited \cap c.start # {})
           => /\ c.kind = "ChecksumError"
              /\ c.ret = <<>>
              /\ AppliedSet = c.start

\* C17: a dry run of the up or of the down command executes no migration
\* artifact and adds or deletes no tracking row: no step of a dry run changes
\* the tracking rows, the effects of the artifacts or the user objects.
C17_DryRunChangesNothing ==
    [][\A p \in Callers :
          (call'[p].op \in {"dry_up", "dry_down"} /\ call'[p] # call[p])
          => UNCHANGED dbVars]_vars

C17_Witness ==
    \E p \in Callers :
        LET c == call[p]
        IN /\ Ended(c, "dry_down") /\ Len(c.ret) >= 1
           /\ c.prev.tag = "dry_up" /\ Len(c.prev.rest) >= 1
           /\ AppliedSet = c.start

C19_DuplicateVersionRejected ==
    /\ \A v \in twin : rows[v] = 0 /\ effects[v] = 0
    /\ \A p \in Callers :
          LET c == call[p]
          IN (Ended(c, "up") /\ twin # {})
             => /\ c.kind = "MigrationError"
                /\ c.ret = <<>>
                /\ AppliedSet = c.start

\* C20: discovery rejects with MigrationError a directory in which a
\* migration has an up file without a down file or a down file without an up
\* file: a forward apply over such a directory raises MigrationError and
\* applies nothing.
C20_IncompleteMigrationRejected ==
    \A p \in Callers :
        LET c == call[p]
        IN (Ended(c, "up") /\ ~c.dirty /\ upFile # downFile)
           => /\ c.kind = "MigrationError"
              /\ c.ret = <<>>
              /\ AppliedSet = c.start

\* C21: within one forward apply or rollback call at most one migration
\* transaction is open at any time, and the transaction of a migration is
\* opened only when every migration before it in the call has committed.
C21_OneTransactionAtATime ==
    \A p \in Callers :
        LET c == call[p]
        IN /\ c.txn \in {0, 1}
           /\ c.pc \in {"idle", "done", "up_next", "down_next"} => c.txn = 0
           /\ c.txn = 1 =>
                 /\ c.ret = SubSeq(c.queue, 1, c.idx - 1)
                 /\ \A i \in 1..(c.idx - 1) :
                       rows[c.queue[i]] = (IF c.op = "up" THEN 1 ELSE 0)

C21_Witness ==
    \E p \in Callers :
        LET c == call[p]
        IN c.txn = 1 /\ c.idx >= 2 /\ c.op = "down"

\* C22: when two tasks sharing one engine concurrently start operations that
\* ensure the tracking table, their CREATE TABLE IF NOT EXISTS statements are
\* never in flight at the same time, neither operation fails on the
\* statement, and the table is created exactly once.
C22_EnsureTableSerialized ==
    /\ \A p \in Callers, q \in Callers :
          (call[p].pc = "ensure" /\ call[q].pc = "ensure") => p = q
    /\ \A p \in Callers : call[p].cause # "ensure"
    /\ Cardinality({p \in Callers : /\ call[p].ddl = "create"
                                     /\ call[p].pc # "ensure"
                                     /\ call[p].cause # "ensure"}) <= 1

\* C23: a forward apply of n migrations calls the progress callback 2n
\* times: for i = 1..n, in apply order, (started, i, n) directly followed
\* after the commit by (completed, i, n); when migration k fails there is no
\* completed call for k and no call for a later migration.
C23_ProgressCallbackSequence ==
    \A p \in Callers :
        LET c == call[p]
            n == Len(c.queue)
            m == Len(c.ret)
            calls == IF c.kind = "ok" THEN 2 * m ELSE 2 * m + 1
        IN Ended(c, "up")
           => ProgressCalls(c) =
                 [j \in 1..calls |->
                     [status |-> IF j % 2 = 1 THEN "started" ELSE "completed",
                      version |-> c.queue[(j + 1) \div 2],
                      index |-> (j + 1) \div 2,
                      total |-> n]]

\* C24: whenever the migrations directories hold at least one migration, the
\* pool yielded by isolated_db is open to a database of its own, created for
\* this test, in which every discovered migration is applied.
C24_IsolatedDbIsMigrated ==
    \A p \in Tests :
        LET f == fx[p]
            d == dbases[pool[p].db]
        IN (/\ f.fixture = "isolated_db"
            /\ f.pc = "test"
            /\ f.why = "none"
            /\ configDirs # {})
           => /\ pool[p].state = "open"
              /\ pool[p].db = p
              /\ d.exists
              /\ ~d.template
              /\ d.applied = configDirs
              /\ d.writes \subseteq {p}

\* C25: for any number of test databases cloned from one template and used
\* concurrently, a write made through the pool of one clone changes no other
\* clone and not the template: while the template exists a clone holds the
\* state of the template, and no database holds writes but its own.
C25_ClonesAreIsolated ==
    /\ dbases[TemplateName].writes = {}
    /\ \A p \in Tests :
          /\ dbases[p].writes \subseteq {p}
          /\ (fx[p].template /\ dbases[p].exists /\ dbases[TemplateName].exists)
             => dbases[p].applied = dbases[TemplateName].applied

C25_Witness ==
    \E p \in Tests, q \in Tests :
        /\ p # q
        /\ fx[p].template /\ fx[q].template
        /\ fx[p].pc = "test" /\ fx[q].pc = "test"
        /\ dbases[p].writes = {p}
        /\ dbases[q].writes = {}

\* the session is over: every fixture that was set up has finished, its
\* teardown included
TeardownFinished ==
    /\ fx[TemplateName].pc = "end"
    /\ \A p \in Tests : fx[p].pc \in {"idle", "end"}

\* C26: once the teardown of the fixtures has finished, and no cleanup
\* failed on the way, every database created by isolated_db,
\* isolated_db_no_template, db_pool_factory and template_db is dropped.
C26_TeardownDropsEverything ==
    (TeardownFinished /\ \A p \in Procs : ~fx[p].lost)
        => \A d \in Procs : ~dbases[d].exists

\* C27: when create_test_db, create_template_db or
\* create_test_pool_with_schema has raised after its CREATE DATABASE
\* succeeded, and the cleanup it attempted did not fail itself, the database
\* it created no longer exists.
C27_FailedCreateLeavesNoDatabase ==
    \A p \in Procs :
        LET f == fx[p]
        IN (/\ f.pc \in {"end", "x_connect"}
            /\ f.created
            /\ f.cause # "none"
            /\ ~f.lost)
           => ~dbases[p].exists

\* C28: a database is flagged datistemplate only when the forward apply on it
\* has succeeded for all migrations and the pool to it is closed; when the
\* forward apply has failed, the database is not flagged and
\* create_template_db raises TestDatabaseError.
C28_TemplateFlagAfterApply ==
    /\ \A d \in Procs :
          dbases[d].template
              => /\ d = TemplateName
                 /\ dbases[d].applied = Range(DiscoverMigrations)
                 /\ pool[d].state = "closed"
    /\ fx[TemplateName].cause = "apply"
          => /\ ~dbases[TemplateName].template
             /\ fx[TemplateName].err = "TestDatabaseError"

C28_Witness ==
    /\ dbases[TemplateName].template
    /\ dbases[TemplateName].applied = Versions
    /\ fx[TemplateName].pc = "yield"

\* the steps of cleanup_test_db, in the order of the code
CleanupSteps == <<"close_pool", "terminate", "drop">>

\* C29: cleanup_test_db closes the pool, then terminates the remaining
\* backends of the database, then drops the database; after it has returned
\* the database no longer exists, the pool is closed and the registry entry
\* of the pool is removed.
C29_CleanupOrderAndResult ==
    \A p \in Procs :
        LET f == fx[p]
        IN /\ \E n \in 0..Len(CleanupSteps) :
                 f.trace = SubSeq(CleanupSteps, 1, n)
           /\ (f.pc \in {"end", "x_connect"} /\ f.trace = CleanupSteps)
              => /\ ~dbases[p].exists
                 /\ pool[p].state = "closed"
                 /\ p \notin registry

C29_Witness ==
    \E p \in Tests :
        /\ fx[p].pc = "end"
        /\ fx[p].why = "teardown"
        /\ fx[p].trace = CleanupSteps
        /\ ~fx[p].lost

\* the places of a fixture where no operation of the manager has an admin
\* connection of its own: before an operation, after it returned or raised,
\* and in create_template_db before line 232
OutsideAdminBlock ==
    {"idle", "c_connect", "m_apply", "t_close", "t_connect", "yield", "test",
     "d_close", "d_connect", "x_connect", "end"}

\* C30: after create_test_db, cleanup_test_db, create_template_db or
\* destroy_template_db has returned or raised, no admin connection that it
\* opened is still open; an operation holds one admin connection at most.
C30_AdminConnectionClosed ==
    \A p \in Procs :
        /\ adminOpen[p] \in {0, 1}
        /\ fx[p].pc \in OutsideAdminBlock => adminOpen[p] = 0

C30_Witness ==
    \E p \in Tests :
        /\ fx[p].pc = "end"
        /\ fx[p].lost
        /\ fx[p].trace = <<"close_pool", "terminate">>
        /\ adminOpen[p] = 0

\* C31: cleanup_test_db called with a pool that has no registry entry raises
\* TestDatabaseError and neither closes the pool nor opens an admin
\* connection, terminates backends or drops a database.
C31_UnknownPoolRejected ==
    [][\A p \in Tests :
          (fx[p].pc = "d_close" /\ p \notin registry /\ fx'[p] # fx[p])
              => /\ fx'[p].raised = "TestDatabaseError"
                 /\ fx'[p].trace = <<>>
                 /\ pool'[p] = pool[p]
                 /\ dbases' = dbases
                 /\ registry' = registry
                 /\ adminOpen' = adminOpen]_vars

C31_Witness ==
    \E p \in Tests :
        /\ fx[p].fixture = "isolated_db"
        /\ fx[p].pc = "end"
        /\ fx[p].why = "teardown"
        /\ fx[p].raised = "TestDatabaseError"
        /\ fx[p].trace = <<>>
        /\ p \notin registry
        /\ pool[p].state = "closed"

\* every applied migration has the migrations it depends on applied too
DependencyClosed(applied) == \A v \in applied : deps[v] \subseteq applied

\* C35: over resolved, acyclic dependencies, a successful up or down call
\* that started from an applied set closed under the declared dependencies
\* leaves an applied set that is closed under them as well.
C35_AppliedSetDependencyClosed ==
    \A p \in Callers :
        LET c == call[p]
        IN (/\ Succeeded(c, "up") \/ Succeeded(c, "down")
            /\ Resolved(deps, c.all) /\ Acyclic(deps, c.all)
            /\ DependencyClosed(c.start))
           => DependencyClosed(AppliedSet)

\* C36: under every interleaving of two concurrent calls of migrate_down on
\* one database, no version is reported as rolled back by both callers, that
\* is, its down artifact is committed once at most.
C36_ConcurrentRollbackOnce ==
    \A p \in Callers, q \in Callers :
        (p # q /\ call[p].op = "down" /\ call[q].op = "down")
            => Range(call[p].ret) \cap Range(call[q].ret) = {}

\* C37: the registry holds no entry whose database has been dropped, and the
\* database of every entry can be dropped through cleanup_test_db, which the
\* server refuses for a database flagged datistemplate.
C37_RegistryMatchesDatabases ==
    \A p \in Procs :
        p \in registry => dbases[p].exists /\ ~dbases[p].template

\* the migrations that version v depends on, directly or not
DependsOn(v) == Closure(deps, deps[v], Cardinality(Versions))

\* C32: in whatever order fixtures are requested from fixture_loader or
\* passed to load_fixtures, a fixture is never executed before the fixture
\* of a migration that its migration depends on.
C32_FixturesInDependencyOrder ==
    \A i, j \in DOMAIN seed.loaded :
        i < j => seed.loaded[j] \notin DependsOn(seed.loaded[i])

\* C33: when a name requested from fixture_loader matches no discovered
\* fixture, the call raises ValueError and executes no fixture, also when
\* other requested names exist.
C33_MissingFixtureLoadsNothing ==
    (seed.entry = "fixture_loader" /\ seed.asked \ seed.files # {})
        => /\ seed.pc = "done"
           /\ seed.err = "ValueError"
           /\ seed.loaded = <<>>

C33_Witness ==
    /\ seed.entry = "fixture_loader"
    /\ seed.err = "ValueError"
    /\ seed.asked \ seed.files # {}
    /\ seed.asked \cap seed.files # {}

\* C34: when load_fixtures runs f1..fn and fk fails, on an SQL error or a
\* missing file, exactly f1..f(k-1) are loaded and the call raises
\* TestDatabaseError; when none fails, all of them are loaded.
C34_FixtureFailureStopsLoading ==
    seed.pc = "done" /\ seed.err # "ValueError"
        => IF seed.failed > 0
           THEN /\ seed.loaded = SubSeq(seed.queue, 1, seed.failed - 1)
                /\ seed.err = "TestDatabaseError"
           ELSE /\ seed.loaded = seed.queue
                /\ seed.err = "none"

C34_Witness ==
    /\ seed.pc = "done"
    /\ seed.failed = 2
    /\ Len(seed.queue) = 3
    /\ seed.queue[2] \in seed.files
    /\ Len(seed.loaded) = 1

\* C38: the bulk cleanup command drops only databases whose name matches the
\* pattern; without --all it drops nothing unless the answer to the prompt is
\* yes, and after the answer no every listed database still exists.
C38_BulkCleanupOnlyMatchingAndConfirmed ==
    /\ \A n \in bulk.before \ catalog : Like(n, bulk.pattern)
    /\ (bulk.pc # "idle" /\ ~bulk.all /\ bulk.answer # "yes")
          => catalog = bulk.before
    /\ bulk.answer = "no" => bulk.listed \subseteq catalog

C38_Witness ==
    /\ bulk.pc = "done"
    /\ bulk.answer = "no"
    /\ bulk.pattern = DefaultPattern
    /\ Cardinality(bulk.listed) = 3
    /\ catalog = DbNames

\* C39: while the application runs, every request receives the pool that
\* the lifespan created at startup, and when the lifespan context has been
\* left, normally or by an exception raised inside it, no pool that a
\* lifespan created is open.
C39_LifespanPool ==
    /\ app.pc = "up"
          => /\ app.db_pool = app.made
             /\ app.db_pool \in app.open
             /\ \A r \in Requests : app.got[r] \in {0, app.db_pool}
    /\ app.pc = "down" => app.open = {}

====
